---------------------------- MODULE Spec2Model ----------------------------
(***************************************************************************)
(* code-clean: an iterative directory walk that dispatches one clean       *)
(* action per marker entry and runs the spawned children in a bounded pool *)
(* (ChildrenManager).  The model follows src/src/main.rs, in its unix and  *)
(* its windows build (target_os).                                          *)
(*                                                                         *)
(* A path is a sequence of file names (strings); the first component is    *)
(* the name of the starting directory.  The controller is single-threaded: *)
(* pc is its position in main.  Children run in parallel: ChildExit is the *)
(* only environment step.  A blocking wait is a step that is enabled only  *)
(* once the operating system has something to report.                      *)
(***************************************************************************)
EXTENDS Integers, Sequences, FiniteSets, TLC

VARIABLES
    fs,         \* the file system: path -> [t, to, rd, md]
    fs0,        \* the file system as it was when main started
    args,       \* env::args(): the command line, program name first
    target_os,  \* the build: "unix" or "windows" (cfg(unix) / cfg(windows))
    max_kids,   \* ChildrenManager.max_kids (kids_limit of main)
    kids,       \* ChildrenManager.kids: Vec<ChildProcess>, as a sequence of pids
    procs,      \* operating-system view of every spawned child, by pid
    dirs,       \* main's stack of directories still to read
    pc,         \* the controller's position in main
    iter,       \* the ReadDir iterator of the for loop: [dir, pending]
    cur,        \* the entry whose handle_path is in progress: [path, is_dir]
    idx,        \* try_wait_remove's loop index i
    sub,        \* bookkeeping of the push_wait in progress (or the last one)
    stdout,     \* lines written to standard output
    stderr,     \* lines written to standard error
    stderr_ok,  \* whether writes to standard error succeed
    acts,       \* every action dispatched by handle_path, in order
    reads,      \* every directory handed to fs::read_dir, in order
    exit        \* how main ends: "run" | "ok" | "err" | "panic" | "abort"

vars == <<fs, fs0, args, target_os, max_kids, kids, procs, dirs, pc, iter, cur, idx, sub,
          stdout, stderr, stderr_ok, acts, reads, exit>>

-----------------------------------------------------------------------------
(* Bounds of the model.                                                    *)

\* capacities 0..MaxCap are tried (-j N accepts every usize, 0 included),
\* and the default MAX_KIDS
MaxCap == 2

\* the number of handles one WaitForMultipleObjects call takes: the
\* source's MAXIMUM_WAIT_OBJECTS is 64 against a default capacity of 768;
\* the model keeps it below the largest capacity in the same way
MaxWaitObjects == 1

-----------------------------------------------------------------------------
(* Paths: std::path::Path as a sequence of components.                     *)

file_name(path) == path[Len(path)]

parent(path) == SubSeq(path, 1, Len(path) - 1)

with_file_name(path, name) == Append(parent(path), name)

\* Path::ends_with: the path's last components are those of `suffix`
ends_with(path, suffix) ==
    /\ Len(path) >= Len(suffix)
    /\ SubSeq(path, Len(path) - Len(suffix) + 1, Len(path)) = suffix

\* str::starts_with(char)
starts_with(s, c) == Len(s) >= 1 /\ SubSeq(s, 1, 1) = c

IsPrefix(p, q) == Len(p) <= Len(q) /\ SubSeq(q, 1, Len(p)) = p

IGNORE_LIST == {<<"node_modules">>}

should_ignore(path) == \E ignore \in IGNORE_LIST : ends_with(path, ignore)

is_hidden(path) == starts_with(file_name(path), ".")

-----------------------------------------------------------------------------
(* The file system.  An entry is [t, to, rd, md]: t is "file", "dir" or    *)
(* "link"; to is a link's target path; rd tells whether fs::read_dir of a  *)
(* directory succeeds; md tells whether DirEntry::metadata succeeds.       *)

Ent(p, t) == [p |-> p, t |-> t, to |-> <<>>, rd |-> TRUE, md |-> TRUE]

Lnk(p, to) == [p |-> p, t |-> "link", to |-> to, rd |-> TRUE, md |-> TRUE]

\* Tree fragments, relative to the starting directory (<<>>).  They follow
\* the cases of tests/integration.rs and add the failure cases of main.
Fragments == {
    \* 1: a marker in the starting directory
    { Ent(<<"Cargo.toml">>, "file") },
    \* 11: a second marker beside it
    { Ent(<<"Makefile">>, "file") },
    \* 2, 3: nested projects
    { Ent(<<"sub">>, "dir"), Ent(<<"sub", "build.ninja">>, "file") },
    \* 5: a git repository (the .git directory holds a marker name too)
    { Ent(<<".git">>, "dir"), Ent(<<".git", "Makefile">>, "file") },
    \* 6: package.json
    { Ent(<<"package.json">>, "file") },
    \* 6: node_modules, a real directory holding a project
    { Ent(<<"node_modules">>, "dir"), Ent(<<"node_modules", "dep">>, "dir"),
      Ent(<<"node_modules", "dep", "Cargo.toml">>, "file"),
      Ent(<<"node_modules", "dep", "node_modules">>, "dir") },
    \* 12: node_modules, a link to a directory
    { Lnk(<<"node_modules">>, <<"real_modules">>), Ent(<<"real_modules">>, "dir") },
    \* node_modules, a link to a file
    { Lnk(<<"node_modules">>, <<"notes">>), Ent(<<"notes">>, "file") },
    \* node_modules, a dangling link
    { Lnk(<<"node_modules">>, <<"gone">>) },
    \* 8: a hidden directory holding a node project
    { Ent(<<".hid">>, "dir"), Ent(<<".hid", "package.json">>, "file"),
      Ent(<<".hid", "node_modules">>, "dir") },
    \* a directory that carries a marker name, with a project below it
    { Ent(<<"gradlew">>, "dir"), Ent(<<"gradlew", "Makefile">>, "file") },
    \* a directory that cannot be read
    { [Ent(<<"locked">>, "dir") EXCEPT !.rd = FALSE],
      Ent(<<"locked", "Makefile">>, "file") },
    \* an entry whose metadata cannot be read
    { [Ent(<<"Makefile">>, "file") EXCEPT !.md = FALSE] },
    \* a link back to the starting directory
    { Lnk(<<"loop">>, <<>>) }
}

\* 1, 6: a node project with installed modules, beside another marker
NodeProject ==
    { Ent(<<"Cargo.toml">>, "file"), Ent(<<"app">>, "dir"),
      Ent(<<"app", "package.json">>, "file"), Ent(<<"app", "node_modules">>, "dir"),
      Ent(<<"app", "node_modules", "dep">>, "file") }

\* no path is given two different entries
WellFormed(ents) == \A a, b \in ents : a.p = b.p => a = b

\* the names the starting directory may have
RootNames == {"ws", "node_modules", ".cfg"}

\* the starting directory, readable
RootDir == Ent(<<>>, "dir")

\* the starting directory, with fs::read_dir of it succeeding or failing
RootEntries == { RootDir, [RootDir EXCEPT !.rd = FALSE] }

\* a file system: a starting directory and the entries below it
MkFs(root, rootEnt, ents) ==
    LET all == ents \cup {rootEnt}
        at(p) == CHOOSE e \in all : <<root>> \o e.p = p
    IN  [p \in {<<root>> \o e.p : e \in all} |->
            [t  |-> at(p).t,
             to |-> IF at(p).t = "link" THEN <<root>> \o at(p).to ELSE <<>>,
             rd |-> at(p).rd,
             md |-> at(p).md]]

\* the file systems tried: every pair of fragments that fit together, and
\* every fragment in every kind of starting directory
TreesWith(roots) ==
    { MkFs("ws", RootDir, fg[1] \cup fg[2]) :
        fg \in {x \in Fragments \X Fragments : WellFormed(x[1] \cup x[2])} }
    \cup
    { MkFs(r, re, f) : r \in RootNames, re \in roots, f \in Fragments }
    \cup
    { MkFs("ws", re, NodeProject) : re \in roots }

\* two trees that between them take the walk through every kind of entry
TreesArgs ==
    { MkFs("ws", RootDir, { Ent(<<"package.json">>, "file"), Ent(<<"node_modules">>, "dir"),
                            Ent(<<"Cargo.toml">>, "file") }),
      MkFs("ws", RootDir, { [Ent(<<"Makefile">>, "file") EXCEPT !.md = FALSE],
                            Ent(<<".git">>, "dir") }) }

\* trees whose links lead back to directories above them
TreesLinked ==
    { MkFs("ws", RootDir, { Lnk(<<"loop">>, <<>>), Ent(<<"sub">>, "dir"),
                            Lnk(<<"sub", "up">>, <<"sub">>),
                            Ent(<<"sub", "Makefile">>, "file"),
                            Ent(<<"Cargo.toml">>, "file") }) }

\* the entries fs::read_dir(dir) lists
Children(f, dir) == {p \in DOMAIN f : Len(p) = Len(dir) + 1 /\ parent(p) = dir}

\* Path::exists: follows a link to its target
exists(f, path) ==
    /\ path \in DOMAIN f
    /\ f[path].t = "link" => f[path].to \in DOMAIN f

\* fs::symlink_metadata(path).is_dir(), and DirEntry::metadata().is_dir()
is_dir(f, path) == f[path].t = "dir"

\* fs::remove_dir_all: the directory and everything below it
remove_dir_all(f, path) == [p \in {q \in DOMAIN f : ~IsPrefix(path, q)} |-> f[p]]


-----------------------------------------------------------------------------
(* Children.  A child's outcome is fixed when it exits: whether it exited  *)
(* with status 0, whether what it wrote to its stderr pipe is valid UTF-8, *)
(* and whether that text holds "No rule to make target".                   *)

Outcomes ==
    {[success |-> TRUE, utf8 |-> TRUE, norule |-> FALSE]} \cup
    [success : {FALSE}, utf8 : BOOLEAN, norule : BOOLEAN]

NoOutcome == [success |-> TRUE, utf8 |-> TRUE, norule |-> TRUE]

Pids == DOMAIN procs

\* the children waitpid can still report: spawned and not yet reaped
Unreaped == {p \in Pids : procs[p].st # "reaped"}

\* hidden names are filtered before the table is consulted
program_for_visible(name) ==
    IF starts_with(name, ".") THEN ""
    ELSE CASE name = "Cargo.toml"   -> "cargo"
           [] name = "Makefile"     -> "make"
           [] name = "build.ninja"  -> "ninja"
           [] name = "gradlew"      -> "./gradlew"
           [] OTHER                 -> ""

\* the removal is handed to a child process like the other actions
program_for_rm(name) ==
    CASE name = "Cargo.toml"   -> "cargo"
      [] name = "Makefile"     -> "make"
      [] name = "build.ninja"  -> "ninja"
      [] name = "gradlew"      -> "./gradlew"
      [] name = ".git"         -> "git"
      [] name = "package.json" -> "rm"
      [] OTHER                 -> ""

\* Child::try_wait would return Some(status): the child has exited (a
\* child blocked on its standard-error pipe has not)
has_exited(ps, pid) == ps[pid].st \in {"exited", "reaped"}

\* handle_path's table: the program run for a file name ("" for none)
program_for(name) ==
    CASE name = "Cargo.toml"   -> "cargo"
      [] name = "Makefile"     -> "make"
      [] name = "build.ninja"  -> "ninja"
      [] name = "gradlew"      -> "./gradlew"
      [] name = ".git"         -> "git"
      [] OTHER                 -> ""

\* the arguments of each new_child_* function
args_for(name, path) ==
    CASE name = "Cargo.toml" -> <<"clean", "--manifest-path", path>>
      [] name = ".git"       -> <<"gc">>
      [] OTHER               -> <<"clean">>

\* Vec::swap_remove(i), i counted from 0: the last element takes the place
swap_remove(v, i) ==
    LET n == Len(v)
    IN  [j \in 1..(n - 1) |-> IF j = i + 1 THEN v[n] ELSE v[j]]

\* position of pid in the vector, counted from 0 (-1: none)
position(v, pid) ==
    IF \E j \in 1..Len(v) : v[j] = pid
    THEN (CHOOSE j \in 1..Len(v) : v[j] = pid /\ \A k \in 1..(j - 1) : v[k] # pid) - 1
    ELSE -1

-----------------------------------------------------------------------------
(* StdErrManager.                                                          *)

\* log_err's line: "Error in: {path} => {err}"; pid names the child the
\* line is about (0: none)
ErrLine(path, why, pid) == [kind |-> "Error in", path |-> path, why |-> why, pid |-> pid]

\* log_os_err's line: "Operating System Error: {err}"
OsLine(why) == [kind |-> "Operating System Error", path |-> <<>>, why |-> why, pid |-> 0]

\* nothing is suppressed
log_child_stderr_all(pid, path, st) ==
    IF ~st.utf8 THEN <<ErrLine(path, "read_to_string", pid)>>
    ELSE <<ErrLine(path, "exit status", pid)>>

\* log_child_stderr: the lines written for a child that exited non-zero
log_child_stderr(pid, path, st) ==
    IF ~st.utf8 THEN <<ErrLine(path, "read_to_string", pid)>>   \* the read failed
    ELSE IF st.norule THEN <<>>                                  \* IGNORE_LIST
    ELSE <<ErrLine(path, "exit status", pid)>>

\* ChildProcess::log_output: the lines written for an exit status
log_output(pid, path, st) ==
    IF st.success THEN <<>> ELSE log_child_stderr(pid, path, st)

\* the Result of writing `lines`: Ok unless a line is written to a broken stream
WriteOk(lines) == lines = <<>> \/ stderr_ok

Written(lines) == IF stderr_ok THEN stderr \o lines ELSE stderr

-----------------------------------------------------------------------------
(* main's argument parsing and startup line.                               *)

\* We don't want to overwhelm the system with open files
MAX_KIDS == 512 + 256

DigitChars == "0123456789"

\* the value of a one-character string that is a decimal digit (-1: none)
to_digit(c) ==
    IF \E d \in 0..9 : SubSeq(DigitChars, d + 1, d + 1) = c
    THEN CHOOSE d \in 0..9 : SubSeq(DigitChars, d + 1, d + 1) = c
    ELSE -1

RECURSIVE from_digits(_, _)
from_digits(s, acc) ==
    IF Len(s) = 0 THEN acc
    ELSE IF to_digit(SubSeq(s, 1, 1)) = -1 THEN -1
    ELSE from_digits(SubSeq(s, 2, Len(s)), acc * 10 + to_digit(SubSeq(s, 1, 1)))

\* usize::from_str: decimal digits after an optional '+' (-1: Err)
from_str(s) ==
    LET digits == IF starts_with(s, "+") THEN SubSeq(s, 2, Len(s)) ELSE s
    IN  IF Len(digits) = 0 THEN -1 ELSE from_digits(digits, 0)

\* Display for usize, as in println!("Using {kids_limit} jobs")
RECURSIVE to_string(_)
to_string(n) ==
    IF n < 10 THEN SubSeq(DigitChars, n + 1, n + 1)
    ELSE to_string(n \div 10) \o SubSeq(DigitChars, (n % 10) + 1, (n % 10) + 1)

\* the value of the last flag is taken
kids_limit_last(a) ==
    LET hits == {i \in 1..Len(a) : a[i] = "-j" \/ a[i] = "--jobs"}
    IN  IF hits = {} THEN MAX_KIDS
        ELSE LET pos == CHOOSE i \in hits : \A j \in hits : j <= i
             IN  IF pos + 1 > Len(a) THEN MAX_KIDS ELSE from_str(a[pos + 1])

\* main's kids_limit: args().position(-j | --jobs), then nth(pos + 1)
\* parsed with from_str(..).unwrap() (-1: unwrap panics), or MAX_KIDS
kids_limit(a) ==
    LET hits == {i \in 1..Len(a) : a[i] = "-j" \/ a[i] = "--jobs"}
    IN  IF hits = {} THEN MAX_KIDS
        ELSE LET pos == CHOOSE i \in hits : \A j \in hits : i <= j
             IN  IF pos + 1 > Len(a) THEN MAX_KIDS ELSE from_str(a[pos + 1])

\* println!("Using {kids_limit} jobs")
UsingLine(n) == "Using " \o to_string(n) \o " jobs"

\* command lines: the default, and -j N for each capacity tried
ArgsBasic ==
    {<<"code-clean">>} \cup {<<"code-clean", "-j", to_string(n)>> : n \in 0..MaxCap}

ArgTokens == {"-j", "--jobs", "1", "+2", "012", "x"}

\* command lines of up to three arguments
ArgsAny ==
    {<<"code-clean">>} \cup
    {<<"code-clean", a>> : a \in ArgTokens} \cup
    {<<"code-clean", a, b>> : a \in ArgTokens, b \in ArgTokens} \cup
    {<<"code-clean", a, b, c>> : a \in ArgTokens, b \in ArgTokens, c \in ArgTokens}

-----------------------------------------------------------------------------
(* Initial state: main after ChildrenManager::new and dirs.push(cwd).      *)

NoCur == [path |-> <<>>, is_dir |-> FALSE]

NoSub == [pid |-> 0, pre |-> 0, live |-> <<>>, polled |-> <<>>, waits |-> 0, res |-> "none"]

NoIter == [dir |-> <<>>, pending |-> {}]

Root(f) == CHOOSE p \in DOMAIN f : Len(p) = 1

InitWith(trees, streams, argvs) ==
    /\ fs \in trees
    /\ fs0 = fs
    /\ args \in argvs
    /\ target_os \in {"unix", "windows"}
    /\ stderr_ok \in streams
    /\ kids = <<>>
    /\ procs = <<>>
    /\ iter = NoIter
    /\ cur = NoCur
    /\ idx = 0
    /\ sub = NoSub
    /\ stderr = <<>>
    /\ acts = <<>>
    /\ reads = <<>>
    /\ IF kids_limit(args) = -1
       THEN \* unwrap() panics before anything is printed
            /\ max_kids = 0
            /\ stdout = <<>>
            /\ dirs = <<>>
            /\ pc = "exited"
            /\ exit = "panic"
       ELSE /\ max_kids = kids_limit(args)
            /\ stdout = <<UsingLine(kids_limit(args))>>
            /\ dirs = <<Root(fs)>>
            /\ pc = "loop"
            /\ exit = "run"

\* the starting directory can be read and standard error accepts writes
Init == InitWith(TreesWith({RootDir}), {TRUE}, ArgsBasic)

\* the starting directory may be unreadable, and standard error may be a
\* stream that refuses every write (2>/dev/full)
InitFault == InitWith(TreesWith(RootEntries), BOOLEAN, ArgsBasic)

\* every command line, over a few trees
InitArgs == InitWith(TreesArgs, {TRUE}, ArgsAny)

\* the trees of Init, and trees whose links form cycles
InitLive == InitWith(TreesWith({RootDir}) \cup TreesLinked, {TRUE}, ArgsBasic)

\* a few trees, for children that may block on their pipe
InitPipe == InitWith(TreesArgs \cup TreesLinked, {TRUE}, ArgsBasic)

-----------------------------------------------------------------------------
(* The walk: main's while and for loops.                                   *)

\* where the for loop goes after an entry: the next entry, or the next pop
NextPc(pending) == IF pending = {} THEN "loop" ELSE "iter"

\* the result is unwrapped: an error panics
TryUnwrap(line, next) ==
    /\ stderr' = stderr
    /\ pc' = "drop"
    /\ exit' = "panic"

\* the error is logged and returned from main (`?` for try_continue!)
TryReturn(line, next) ==
    /\ stderr' = Written(<<line>>)
    /\ pc' = "drop"
    /\ exit' = "err"

\* try_continue!'s Err arm: log_err(path, err)?; continue.  A failed write
\* leaves main through `?` with an error.
TryContinue(line, next) ==
    /\ stderr' = Written(<<line>>)
    /\ IF stderr_ok
       THEN pc' = next /\ exit' = exit
       ELSE pc' = "drop" /\ exit' = "err"

\* every real directory is descended into
descends_any(path, isdir) == isdir

\* main's descent condition for an entry whose metadata said is_dir
descends(path, isdir) == isdir /\ ~should_ignore(path) /\ ~is_hidden(path)

\* a link to a directory is followed: its target is pushed
DescendFollowing(stack, path, isdir) ==
    IF descends(path, isdir) THEN Append(stack, path)
    ELSE IF /\ path \in DOMAIN fs
            /\ fs[path].t = "link"
            /\ fs[path].to \in DOMAIN fs
            /\ fs[fs[path].to].t = "dir"
         THEN Append(stack, fs[path].to)
         ELSE stack

Descend(stack, path, isdir) ==
    IF descends(path, isdir) THEN Append(stack, path) ELSE stack

\* while let Some(dir) = dirs.pop() { for entry in try_continue!(fs::read_dir(&dir)) ..
ReadDir ==
    /\ pc = "loop"
    /\ dirs # <<>>
    /\ LET dir == dirs[Len(dirs)]
       IN  /\ dirs' = SubSeq(dirs, 1, Len(dirs) - 1)
           /\ reads' = Append(reads, dir)
           /\ IF fs[dir].rd
              THEN /\ iter' = [dir |-> dir, pending |-> Children(fs, dir)]
                   /\ pc' = NextPc(Children(fs, dir))
                   /\ UNCHANGED <<stderr, exit>>
              ELSE /\ iter' = NoIter
                   /\ TryContinue(ErrLine(dir, "read_dir", 0), "loop")
    /\ UNCHANGED <<fs, fs0, args, target_os, max_kids, kids, procs, cur, idx, sub, stdout, stderr_ok, acts>>

\* the loop ends: writeln!("Waiting for child processes to finish")?; drop(kids_manager)
WalkDone ==
    /\ pc = "loop"
    /\ dirs = <<>>
    /\ stdout' = Append(stdout, "Waiting for child processes to finish")
    /\ pc' = "drop"
    /\ exit' = "ok"
    /\ UNCHANGED <<fs, fs0, args, target_os, max_kids, kids, procs, dirs, iter, cur, idx, sub,
                   stderr, stderr_ok, acts, reads>>

\* An entry removed since fs::read_dir opened the directory: the iterator
\* either no longer yields it, or yields it and entry.metadata() fails.
EntryVanished ==
    /\ pc = "iter"
    /\ \E e \in iter.pending :
        /\ e \notin DOMAIN fs
        /\ iter' = [iter EXCEPT !.pending = @ \ {e}]
        /\ \/ /\ pc' = NextPc(iter'.pending)
              /\ UNCHANGED <<stderr, exit>>
           \/ TryContinue(ErrLine(e, "metadata", 0), NextPc(iter'.pending))
    /\ UNCHANGED <<fs, fs0, args, target_os, max_kids, kids, procs, dirs, cur, idx, sub, stdout,
                   stderr_ok, acts, reads>>

\* let metadata = try_continue!(entry.metadata(), path) fails
EntryMetadataErr ==
    /\ pc = "iter"
    /\ \E e \in iter.pending :
        /\ e \in DOMAIN fs
        /\ ~fs[e].md
        /\ iter' = [iter EXCEPT !.pending = @ \ {e}]
        /\ TryContinue(ErrLine(e, "metadata", 0), NextPc(iter'.pending))
    /\ UNCHANGED <<fs, fs0, args, target_os, max_kids, kids, procs, dirs, cur, idx, sub, stdout,
                   stderr_ok, acts, reads>>

\* handle_path on a name outside the table: Ok(()), then the descent check
EntryOther ==
    /\ pc = "iter"
    /\ \E e \in iter.pending :
        /\ e \in DOMAIN fs
        /\ fs[e].md
        /\ program_for(file_name(e)) = ""
        /\ file_name(e) # "package.json"
        /\ iter' = [iter EXCEPT !.pending = @ \ {e}]
        /\ dirs' = Descend(dirs, e, is_dir(fs, e))
        /\ pc' = NextPc(iter'.pending)
    /\ UNCHANGED <<fs, fs0, args, target_os, max_kids, kids, procs, cur, idx, sub, stdout, stderr,
                   stderr_ok, acts, reads, exit>>

\* what a failed fs::remove_dir_all may already have removed: entries
\* below the path (never the path itself), each with all that is below it
Partial(f, path) ==
    {d \in SUBSET {q \in DOMAIN f : IsPrefix(path, q) /\ q # path} :
        \A q \in d : \A r \in DOMAIN f : IsPrefix(q, r) => r \in d}

remove_all(f, gone) == [p \in DOMAIN f \ gone |-> f[p]]

\* the directory test follows a link (fs::metadata for fs::symlink_metadata)
new_child_node_modules_follow(f, path, removal_ok, gone) ==
    IF ~exists(f, path) \/ ~(is_dir(f, path) \/ (f[path].t = "link" /\ is_dir(f, f[path].to)))
    THEN [fs |-> f, res |-> "nothing"]
    ELSE IF removal_ok
         THEN [fs |-> remove_dir_all(f, path), res |-> "removed"]
         ELSE [fs |-> remove_all(f, gone), res |-> "remove_failed"]

\* the removal is tried without the sibling's existence and kind being tested
new_child_node_modules_blind(f, path, removal_ok, gone) ==
    IF removal_ok /\ path \in DOMAIN f
    THEN [fs |-> remove_dir_all(f, path), res |-> "removed"]
    ELSE [fs |-> remove_all(f, gone), res |-> "remove_failed"]

\* new_child_node_modules(path): what is left of the file system, and the
\* Result; a failed removal leaves the path and may have removed `gone`
new_child_node_modules(f, path, removal_ok, gone) ==
    IF ~exists(f, path) \/ ~is_dir(f, path)
    THEN [fs |-> f, res |-> "nothing"]
    ELSE IF removal_ok
         THEN [fs |-> remove_dir_all(f, path), res |-> "removed"]
         ELSE [fs |-> remove_all(f, gone), res |-> "remove_failed"]

\* handle_path on "package.json": the synchronous removal of the sibling
\* node_modules; fs::remove_dir_all may fail
EntryPackageJson ==
    /\ pc = "iter"
    /\ \E e \in iter.pending, removal_ok \in BOOLEAN :
      \E gone \in Partial(fs, with_file_name(e, "node_modules")) :
        /\ e \in DOMAIN fs
        /\ fs[e].md
        /\ file_name(e) = "package.json"
        /\ LET r == new_child_node_modules(fs, with_file_name(e, "node_modules"),
                                           removal_ok, gone)
           IN  /\ removal_ok \/ r.res = "remove_failed"
               /\ r.res = "remove_failed" \/ gone = {}
               /\ fs' = r.fs
               /\ acts' = Append(acts, [path |-> e, prog |-> "rm -rf", res |-> r.res])
               /\ iter' = [iter EXCEPT !.pending = @ \ {e}]
               /\ IF r.res = "remove_failed"
                  THEN /\ TryContinue(ErrLine(e, "remove_dir_all", 0), NextPc(iter'.pending))
                       /\ dirs' = dirs
                  ELSE /\ dirs' = Descend(dirs, e, is_dir(fs, e))
                       /\ pc' = NextPc(iter'.pending)
                       /\ UNCHANGED <<stderr, exit>>
    /\ UNCHANGED <<fs0, args, target_os, max_kids, kids, procs, cur, idx, sub, stdout, stderr_ok, reads>>

-----------------------------------------------------------------------------
(* The pool: ChildrenManager::push_wait, try_wait_remove, wait_remove.     *)

\* the child is not registered before the waits
push_not_yet(v, pid) == v

\* self.kids.push(kid): push_wait's first statement
push(v, pid) == Append(v, pid)

\* the limit is enforced only once it is exceeded
at_limit_strict(v, cap) == Len(v) > cap

\* the limit is taken two too high
at_limit_late(v, cap) == Len(v) >= cap + 2

\* push_wait's two conditions: `if self.kids.len() >= self.max_kids`
at_limit(v, cap) == Len(v) >= cap

\* the operating system reaps a child: waitpid has returned its status
Reap(pid, how) ==
    [procs EXCEPT ![pid].st = "reaped",
                  ![pid].via = IF procs[pid].st = "reaped" THEN @ ELSE how]

\* push_wait returns Ok(()): handle_path returns Ok, then main's descent check
SubmitReturns ==
    /\ dirs' = Descend(dirs, cur.path, cur.is_dir)
    /\ pc' = NextPc(iter.pending)
    /\ cur' = NoCur
    /\ exit' = exit

\* push_wait returns Err through `?`: handle_path returns it, try_continue!
\* logs it against the path and continues (or leaves main if that fails too)
SubmitFails(log) ==
    /\ dirs' = dirs
    /\ cur' = NoCur
    /\ IF stderr_ok
       THEN /\ stderr' = Append(log, ErrLine(cur.path, "push_wait", 0))
            /\ pc' = NextPc(iter.pending)
            /\ exit' = exit
       ELSE /\ stderr' = log
            /\ pc' = "drop"
            /\ exit' = "err"

\* handle_path on a marker name: new_child_* spawns (ChildProcess::new), and
\* push_wait registers the child and checks the limit
EntrySpawn ==
    /\ pc = "iter"
    /\ \E e \in iter.pending, spawn_ok \in BOOLEAN :
        /\ e \in DOMAIN fs
        /\ fs[e].md
        /\ program_for(file_name(e)) # ""
        /\ iter' = [iter EXCEPT !.pending = @ \ {e}]
        /\ acts' = Append(acts, [path |-> e, prog |-> program_for(file_name(e)),
                                 res |-> IF spawn_ok THEN "spawned" ELSE "spawn_failed"])
        /\ IF ~spawn_ok
           THEN /\ TryContinue(ErrLine(e, "spawn", 0), NextPc(iter'.pending))
                /\ UNCHANGED <<kids, procs, dirs, cur, idx, sub>>
           ELSE LET pid == Len(procs) + 1
                IN  /\ procs' = Append(procs,
                           [st |-> "running", status |-> NoOutcome, via |-> "none",
                            path |-> parent(e), prog |-> program_for(file_name(e)),
                            args |-> args_for(file_name(e), e)])
                    /\ kids' = push(kids, pid)
                    /\ idx' = 0
                    /\ UNCHANGED <<stderr, exit>>
                    /\ IF at_limit(kids', max_kids)
                       THEN /\ pc' = "try_wait"
                            /\ cur' = [path |-> e, is_dir |-> is_dir(fs, e)]
                            /\ sub' = [pid |-> pid, pre |-> Len(kids), live |-> kids', polled |-> <<>>,
                                       waits |-> 0, res |-> "run"]
                            /\ dirs' = dirs
                       ELSE /\ pc' = NextPc(iter'.pending)
                            /\ cur' = NoCur
                            /\ sub' = [pid |-> pid, pre |-> Len(kids), live |-> kids', polled |-> <<>>,
                                       waits |-> 0, res |-> "Ok"]
                            /\ dirs' = Descend(dirs, e, is_dir(fs, e))
    /\ UNCHANGED <<fs, fs0, args, target_os, max_kids, stdout, stderr_ok, reads>>

\* the index moves on after a removal too
next_index_always(i, removed) == i + 1

\* try_wait_remove's index: `swap_remove(i)` keeps i, `else { i += 1 }`
next_index(i, removed) == IF removed THEN i ELSE i + 1

\* try_wait_remove: one turn of `while i < self.kids.len()`, or the loop's end
\* and push_wait's second condition
TryWait ==
    /\ pc = "try_wait"
    /\ IF idx < Len(kids)
       THEN LET pid == kids[idx + 1]
            IN  IF ~has_exited(procs, pid)
                THEN \* try_wait() is Ok(None): i += 1
                     /\ idx' = next_index(idx, FALSE)
                     /\ sub' = [sub EXCEPT !.polled = Append(@, pid)]
                     /\ UNCHANGED <<kids, procs, stderr, dirs, pc, cur, exit>>
                ELSE \* try_wait() is Ok(Some(status)): log_res, then swap_remove(i)
                     LET lines == log_output(pid, procs[pid].path, procs[pid].status)
                     IN  /\ procs' = Reap(pid, "try_wait")
                         /\ idx' = IF WriteOk(lines) THEN next_index(idx, TRUE) ELSE idx
                         /\ IF WriteOk(lines)
                            THEN /\ stderr' = Written(lines)
                                 /\ kids' = swap_remove(kids, idx)
                                 /\ sub' = [sub EXCEPT !.polled = Append(@, pid)]
                                 /\ UNCHANGED <<dirs, pc, cur, exit>>
                            ELSE /\ kids' = kids
                                 /\ sub' = [sub EXCEPT !.polled = Append(@, pid),
                                                       !.res = "Err"]
                                 /\ SubmitFails(stderr)
       ELSE /\ UNCHANGED <<kids, procs, stderr, idx>>
            /\ IF at_limit(kids, max_kids)
               THEN /\ pc' = "wait"
                    /\ UNCHANGED <<dirs, cur, sub, exit>>
               ELSE /\ sub' = [sub EXCEPT !.res = "Ok"]
                    /\ SubmitReturns
    /\ UNCHANGED <<fs, fs0, args, target_os, max_kids, iter, stdout, stderr_ok, acts, reads>>

\* os_wait::wait_on_children (unix): waitpid(-pgid, &status, 0) fails with
\* ECHILD when the process has no child left to wait for, and otherwise
\* blocks until some child has exited and returns that child's pid
waitpid_any(ps) ==
    IF \A p \in DOMAIN ps : ps[p].st = "reaped"
    THEN {-1}
    ELSE {p \in DOMAIN ps : ps[p].st = "exited"}

\* os_wait::wait_on_children (windows): WaitForMultipleObjects on the first
\* MAXIMUM_WAIT_OBJECTS handles of the slice fails (WAIT_FAILED) when there
\* is no handle, and otherwise blocks until one of these handles is
\* signaled and returns the smallest signaled index; a process handle stays
\* signaled once the process has exited
wait_for_multiple_objects(ks, ps) ==
    LET size == IF Len(ks) < MaxWaitObjects THEN Len(ks) ELSE MaxWaitObjects
        signaled == {i \in 1..size : has_exited(ps, ks[i])}
    IN  IF size = 0 THEN {-1}
        ELSE {ks[i] : i \in {j \in signaled : \A k \in signaled : j <= k}}

\* os_wait::wait_on_children of the build: the pids it can return now
\* (-1: Err; no pid: the call blocks)
wait_on_children(os, ks, ps) ==
    IF os = "unix" THEN waitpid_any(ps) ELSE wait_for_multiple_objects(ks, ps)

\* the error wait_on_children returns
last_os_error(os) == IF os = "unix" THEN "ECHILD" ELSE "ERROR_INVALID_PARAMETER"

\* wait_remove: the blocking reap
WaitAny ==
    /\ pc = "wait"
    /\ \E pid \in wait_on_children(target_os, kids, procs) :
        /\ sub' = [sub EXCEPT !.waits = @ + 1,
                              !.res = IF pid = -1
                                      THEN IF stderr_ok THEN "Ok" ELSE "Err"
                                      ELSE IF position(kids, pid) = -1 THEN "panic"
                                      ELSE IF WriteOk(log_output(pid, procs[pid].path,
                                                                 procs[pid].status))
                                           THEN "Ok" ELSE "Err"]
        /\ IF pid = -1
           THEN \* Err(err) => self.stderr.log_os_err(err)
                /\ UNCHANGED <<kids, procs>>
                /\ IF stderr_ok
                   THEN stderr' = Append(stderr, OsLine(last_os_error(target_os))) /\ SubmitReturns
                   ELSE SubmitFails(stderr)
           ELSE /\ procs' = Reap(pid, "wait_any")
                /\ IF position(kids, pid) = -1
                   THEN \* panic!("waitpid returned unknown pid"): main unwinds
                        /\ pc' = "drop"
                        /\ exit' = "panic"
                        /\ UNCHANGED <<kids, stderr, dirs, cur>>
                   ELSE \* Ok((status, idx)) => self.kids.swap_remove(idx).log_output(..)
                        LET lines == log_output(pid, procs[pid].path, procs[pid].status)
                        IN  /\ kids' = swap_remove(kids, position(kids, pid))
                            /\ IF WriteOk(lines)
                               THEN stderr' = Written(lines) /\ SubmitReturns
                               ELSE SubmitFails(stderr)
    /\ UNCHANGED <<fs, fs0, args, target_os, max_kids, iter, idx, stdout, stderr_ok, acts, reads>>

-----------------------------------------------------------------------------
(* Shutdown: impl Drop for ChildrenManager, and the end of main.           *)

\* one turn of self.kids.drain(..).for_each(|child| child.wait_log(..).expect(..)):
\* child.wait() blocks until the child has exited (a status the Child already
\* holds is returned at once)
DrainOne ==
    /\ pc = "drop"
    /\ kids # <<>>
    /\ LET pid == Head(kids)
           lines == log_output(pid, procs[pid].path, procs[pid].status)
       IN  /\ has_exited(procs, pid)
           /\ procs' = Reap(pid, "drain")
           /\ stderr' = Written(lines)
           /\ IF WriteOk(lines)
              THEN /\ kids' = Tail(kids)
                   /\ UNCHANGED <<pc, exit>>
              ELSE \* expect() panics: the Drain drops the children left, unwaited;
                   \* a panic while main already unwinds aborts the process
                   /\ kids' = <<>>
                   /\ pc' = "exited"
                   /\ exit' = IF exit = "panic" THEN "abort" ELSE "panic"
    /\ UNCHANGED <<fs, fs0, args, target_os, max_kids, dirs, iter, cur, idx, sub, stdout, stderr_ok,
                   acts, reads>>

\* 'Done' is printed while the manager is still alive (its drop comes last)
FinishBeforeDrop ==
    /\ pc = "drop"
    /\ pc' = "exited"
    /\ stdout' = IF exit = "ok" THEN Append(stdout, "Done") ELSE stdout
    /\ UNCHANGED <<fs, fs0, args, target_os, max_kids, kids, procs, dirs, iter, cur, idx, sub,
                   stderr, stderr_ok, acts, reads, exit>>

\* the drain is over: println!("Done"); Ok(()) on the normal path
Finish ==
    /\ pc = "drop"
    /\ kids = <<>>
    /\ pc' = "exited"
    /\ stdout' = IF exit = "ok" THEN Append(stdout, "Done") ELSE stdout
    /\ UNCHANGED <<fs, fs0, args, target_os, max_kids, kids, procs, dirs, iter, cur, idx, sub,
                   stderr, stderr_ok, acts, reads, exit>>

\* the process's exit code
ExitCode == CASE exit = "ok" -> 0 [] exit = "err" -> 1 [] exit = "panic" -> 101
              [] OTHER -> 134

-----------------------------------------------------------------------------
(* The environment: a running child exits, with some outcome.              *)

ChildExit ==
    /\ \E pid \in Pids, o \in Outcomes :
        /\ procs[pid].st = "running"
        /\ procs' = [procs EXCEPT ![pid].st = "exited", ![pid].status = o]
    /\ UNCHANGED <<fs, fs0, args, target_os, max_kids, kids, dirs, pc, iter, cur, idx, sub, stdout,
                   stderr, stderr_ok, acts, reads, exit>>

\* A running child writes more to its standard error than the pipe holds
\* (ChildProcess::new gives it Stdio::piped()): the write blocks until the
\* pipe is read, and the controller reads it only in log_child_stderr, once
\* it has the child's exit status.
ChildBlocks ==
    /\ \E pid \in Pids :
        /\ procs[pid].st = "running"
        /\ procs' = [procs EXCEPT ![pid].st = "blocked"]
    /\ UNCHANGED <<fs, fs0, args, target_os, max_kids, kids, dirs, pc, iter, cur, idx, sub,
                   stdout, stderr, stderr_ok, acts, reads, exit>>

-----------------------------------------------------------------------------

\* the steps of main's single thread
Controller ==
    \/ ReadDir
    \/ WalkDone
    \/ EntryVanished
    \/ EntryMetadataErr
    \/ EntryOther
    \/ EntryPackageJson
    \/ EntrySpawn
    \/ TryWait
    \/ WaitAny
    \/ DrainOne
    \/ Finish

Next ==
    \/ ReadDir
    \/ WalkDone
    \/ EntryVanished
    \/ EntryMetadataErr
    \/ EntryOther
    \/ EntryPackageJson
    \/ EntrySpawn
    \/ TryWait
    \/ WaitAny
    \/ DrainOne
    \/ Finish
    \/ ChildExit

Spec == Init /\ [][Next]_vars

SpecFault == InitFault /\ [][Next]_vars

SpecArgs == InitArgs /\ [][Next]_vars

\* main's thread runs whenever it is not blocked in a wait, and every child
\* that runs exits in the end
SpecLive == InitLive /\ [][Next]_vars /\ WF_vars(Controller) /\ WF_vars(ChildExit)

\* children whose diagnostic output can exceed the pipe's buffer
NextPipe == Next \/ ChildBlocks

SpecPipe == InitPipe /\ [][NextPipe]_vars

-----------------------------------------------------------------------------
(* Properties.                                                             *)

\* C1: whenever a submit (push_wait) has returned, the live set holds at
\* most max_kids processes, for every capacity and every order of exits.
C1_LiveSetWithinCapacity ==
    sub.res \in {"Ok", "Err"} => Len(kids) <= max_kids

\* a submit that had to block has returned, and more submits came before it
C1_Witness ==
    /\ sub.res = "Ok"
    /\ sub.waits = 1
    /\ sub.pre >= 1
    /\ Len(kids) = max_kids - 1

\* C2: when main has ended, on whatever path, the drain has waited on every
\* child: the live set is empty and no spawned process is left unreaped.
C2_DrainReapsAll ==
    pc = "exited" => kids = <<>> /\ \A p \in Pids : procs[p].st = "reaped"

\* C3: whenever the controller is at a wait call, every child the operating
\* system can report is registered in the live set, and the blocking wait
\* never returns a pid the live set lacks.
C3_RegisteredBeforeWait ==
    /\ sub.res # "panic"
    /\ pc \in {"try_wait", "wait"} => \A p \in Unreaped : position(kids, p) # -1

\* the blocking wait reported the very child the submit had just registered
C3_Witness ==
    /\ sub.waits = 1
    /\ sub.res = "Ok"
    /\ sub.pre >= 1
    /\ procs[sub.pid].via = "wait_any"

-----------------------------------------------------------------------------
(* The walk's view of the initial tree, for the properties below.          *)

\* the names handle_path acts on
Markers == {"Cargo.toml", "Makefile", "build.ninja", "gradlew", ".git", "package.json"}

\* the directories above a path: its proper prefixes
Ancestors(path) == {SubSeq(path, 1, k) : k \in 1..(Len(path) - 1)}

\* an entry the walk can arrive at without following a link: every
\* directory above it is a real, readable directory, and metadata is
\* available for the entry and for the directories above it
Reachable(path) ==
    /\ path \in DOMAIN fs0
    /\ Len(path) >= 2
    /\ fs0[path].md
    /\ \A a \in Ancestors(path) : fs0[a].t = "dir" /\ fs0[a].rd /\ fs0[a].md

\* some directory above the path is ignored (node_modules) or hidden
UnderSkipped(path) == \E a \in Ancestors(path) : should_ignore(a) \/ is_hidden(a)

\* how many times handle_path dispatched an action for the path
Dispatched(path) == Cardinality({i \in 1..Len(acts) : acts[i].path = path})

\* C4: when the run has finished, every reachable marker entry that is not
\* under an ignored or hidden directory has triggered its action exactly
\* once; and no entry triggers an action twice.
C4_EachMarkerOnce ==
    /\ \A p \in DOMAIN fs0 : Dispatched(p) <= 1
    /\ pc = "exited" /\ exit = "ok" =>
         \A p \in DOMAIN fs0 :
            file_name(p) \in Markers /\ Reachable(p) /\ ~UnderSkipped(p)
                => Dispatched(p) = 1

-----------------------------------------------------------------------------
(* The submit in progress (or the last one), read from its bookkeeping.    *)

Elems(v) == {v[i] : i \in 1..Len(v)}

\* the non-blocking pass polled every process of the live set exactly once
PolledAll == Len(sub.polled) = Len(sub.live) /\ Elems(sub.polled) = Elems(sub.live)

\* what the non-blocking pass left in the live set
LeftByPass == Len(sub.live) - Cardinality({p \in Elems(sub.live) : procs[p].via = "try_wait"})

Reaping == pc \in {"try_wait", "wait"} \/ sub.polled # <<>> \/ sub.waits > 0

\* C5 (as stated): a submit reaps only when admitting the new process
\* would make the live set exceed the capacity.
C5_ReapOnlyWhenExceeding == Reaping => sub.pre + 1 > max_kids

\* C5 (amended): a submit reaps exactly when the live set, the new process
\* included, has reached the capacity; the non-blocking pass over the whole
\* live set comes first; a blocking reap follows only if the set is still
\* at capacity after the pass, and then exactly one.
C5_AdmissionProtocol ==
    /\ Reaping => sub.pre + 1 >= max_kids
    /\ sub.res = "Ok" /\ sub.pre + 1 >= max_kids => PolledAll
    /\ pc = "wait" \/ sub.waits > 0 => PolledAll /\ LeftByPass >= max_kids
    /\ sub.res = "Ok" /\ sub.pre + 1 >= max_kids /\ LeftByPass >= max_kids => sub.waits = 1
    /\ sub.waits <= 1
    /\ pc = "wait" => sub.waits = 0

\* a submit that brought the live set exactly to the capacity polled the
\* whole set, found nothing, and blocked once
C5_Witness ==
    /\ sub.res = "Ok"
    /\ sub.waits = 1
    /\ Len(sub.polled) >= 2
    /\ sub.pre + 1 = max_kids

-----------------------------------------------------------------------------
(* node_modules.                                                           *)

NodeModules == {p \in DOMAIN fs0 : Len(p) >= 2 /\ file_name(p) = "node_modules"}

Sibling(path, name) == with_file_name(path, name)

\* handle_path ran on the path and its action did not fail
HandledOk(path) ==
    \E i \in 1..Len(acts) : acts[i].path = path /\ acts[i].res # "remove_failed"

LinkedModules ==
    {p \in NodeModules : fs0[p].t = "link" /\ Sibling(p, "package.json") \in DOMAIN fs0}

\* C7: a node_modules that is a symbolic link beside a package.json is left
\* in place, and so is its target; no error line is written for it; and the
\* run ends successfully.
C7_LinkNeverDeleted ==
    \A p \in LinkedModules :
        /\ p \in DOMAIN fs /\ fs[p] = fs0[p]
        /\ fs0[p].to \in DOMAIN fs0 => fs0[p].to \in DOMAIN fs /\ fs[fs0[p].to] = fs0[fs0[p].to]
        /\ \A i \in 1..Len(stderr) : stderr[i].path \notin {p, Sibling(p, "package.json")}
        /\ \A i \in 1..Len(acts) :
              acts[i].path = Sibling(p, "package.json") => acts[i].res = "nothing"
        /\ pc = "exited" => exit = "ok" /\ stdout[Len(stdout)] = "Done"

\* a run over a package.json beside a node_modules link to a directory
C7_Witness ==
    /\ pc = "exited"
    /\ \E p \in LinkedModules :
          /\ fs0[p].to \in DOMAIN fs0
          /\ fs0[fs0[p].to].t = "dir"
          /\ Dispatched(Sibling(p, "package.json")) = 1

-----------------------------------------------------------------------------
(* Descent.                                                                *)

Skipped(path) == should_ignore(path) \/ is_hidden(path)

\* C8 (as stated): no directory named node_modules or with a name beginning
\* with '.' is ever read by the walk, and no entry under such a directory
\* triggers an action.
C8_NeverReadsSkipped ==
    /\ \A i \in 1..Len(reads) : ~Skipped(reads[i])
    /\ \A i \in 1..Len(acts) : ~UnderSkipped(acts[i].path)

\* C8 (amended): no directory other than the starting directory itself is
\* read by the walk if it is named node_modules or its name begins with '.',
\* and no entry under such a directory triggers an action.
C8_NeverDescendsSkipped ==
    /\ \A i \in 1..Len(reads) : reads[i] # Root(fs0) => ~Skipped(reads[i])
    /\ \A i \in 1..Len(acts) :
          \A a \in Ancestors(acts[i].path) : a # Root(fs0) => ~Skipped(a)

\* a run has passed a skipped directory that holds entries, one of them
\* below a further directory
C8_Witness ==
    /\ pc = "exited"
    /\ Root(fs0) \in Elems(reads)
    /\ \E p \in DOMAIN fs0 :
          /\ parent(p) = Root(fs0)
          /\ Skipped(p)
          /\ fs0[p].t = "dir" /\ fs0[p].rd /\ fs0[p].md
          /\ \E q \in DOMAIN fs0 : p \in Ancestors(q) /\ file_name(q) \in Markers

-----------------------------------------------------------------------------
(* Logging of reaped children.                                             *)

\* the text log_child_stderr captured holds the suppressed phrase (nothing
\* is captured when the pipe's content is not valid UTF-8)
CapturedMatches(st) == st.utf8 /\ st.norule

LinesFor(pid) == Cardinality({i \in 1..Len(stderr) : stderr[i].pid = pid})

\* C9: a reaped child that exited successfully has no error line; one that
\* exited non-zero has none if its captured text matches the suppression
\* rule and exactly one otherwise, whichever way it was reaped; a child not
\* yet reaped has none.
C9_OneLinePerFailure ==
    \A p \in Pids :
        LET st == procs[p].status
        IN  /\ procs[p].st # "reaped" => LinesFor(p) = 0
            /\ procs[p].st = "reaped" =>
                /\ procs[p].via \in {"try_wait", "wait_any", "drain"}
                /\ st.success => LinesFor(p) = 0
                /\ ~st.success /\ CapturedMatches(st) => LinesFor(p) = 0
                /\ ~st.success /\ ~CapturedMatches(st) => LinesFor(p) = 1

\* three children were reaped on the three paths: one succeeded, one failed
\* with the suppressed text, one failed with other text
C9_Witness ==
    \E a, b, c \in Pids :
        /\ procs[a].st = "reaped" /\ procs[b].st = "reaped" /\ procs[c].st = "reaped"
        /\ {procs[a].via, procs[b].via, procs[c].via} = {"try_wait", "wait_any", "drain"}
        /\ procs[a].status.success
        /\ ~procs[b].status.success /\ CapturedMatches(procs[b].status)
        /\ ~procs[c].status.success /\ ~CapturedMatches(procs[c].status)
        /\ procs[c].status.utf8

-----------------------------------------------------------------------------
(* Spawn failure.                                                          *)

\* the step is a dispatch whose spawn failed
SpawnFailed ==
    /\ Len(acts') = Len(acts) + 1
    /\ acts'[Len(acts')].res = "spawn_failed"

\* C10: a failed spawn is logged against the path it was for, leaves the
\* live set and every child as they were, performs no wait, and the walk
\* goes on to the next entry.
C10_SpawnFailureIsLocal ==
    [][SpawnFailed =>
          /\ stderr' = Append(stderr, ErrLine(acts'[Len(acts')].path, "spawn", 0))
          /\ kids' = kids
          /\ procs' = procs
          /\ sub' = sub
          /\ pc' = NextPc(iter'.pending)
          /\ exit' = "run"
          /\ iter'.dir = iter.dir]_vars

\* a spawn failed while another child was in the live set, and the walk
\* went on to a further entry
C10_Witness ==
    /\ \E i \in 1..(Len(acts) - 1) : acts[i].res = "spawn_failed"
    /\ \E i \in 1..Len(acts) : acts[i].res = "spawned"
    /\ kids # <<>>

-----------------------------------------------------------------------------
(* Errors and the exit code.                                               *)

\* the line the step wrote to standard error, if it wrote one
Logged(line) == stderr' = Append(stderr, line)

WroteOsError == \E why \in {"ECHILD", "ERROR_INVALID_PARAMETER"} : Logged(OsLine(why))

HasLine(kind, whys) == \E i \in 1..Len(stderr) : stderr[i].kind = kind /\ stderr[i].why \in whys

\* C11: with a standard error that accepts writes, no traversal error,
\* spawn error, non-zero child exit or operating-system wait failure ends
\* the run or changes the exit code: the step that logs the error leaves
\* the walk (or the drain) going, the run ends only after the drain with
\* 'Done' as its last line and exit code 0, and a failed wait-any is
\* logged with the operating-system prefix by a submit that returns Ok.
C11_ErrorsNeverAbort ==
    /\ [](exit \in {"run", "ok"})
    /\ [](pc = "exited" =>
            /\ ExitCode = 0
            /\ stdout[Len(stdout)] = "Done"
            /\ kids = <<>>)
    /\ [][stderr' # stderr =>
            /\ exit' = exit
            /\ pc = "drop" => pc' = "drop"
            /\ pc # "drop" => pc' \in {"loop", "iter", "try_wait", "wait"}]_vars
    /\ [][WroteOsError =>
            /\ pc = "wait"
            /\ sub'.res = "Ok"
            /\ pc' = NextPc(iter.pending)]_vars

\* a finished run that met an error of each of the four kinds
C11_Witness ==
    /\ pc = "exited"
    /\ HasLine("Error in", {"read_dir", "metadata"})
    /\ HasLine("Error in", {"spawn"})
    /\ HasLine("Error in", {"exit status", "read_to_string"})
    /\ HasLine("Operating System Error", {"ECHILD", "ERROR_INVALID_PARAMETER"})

\* C12: when the starting directory cannot be read, the program ends at
\* once with a non-zero exit code: it neither goes on to the shutdown lines
\* nor ends with exit code 0.
C12_RootReadFailureIsFatal ==
    ~fs0[Root(fs0)].rd /\ Root(fs0) \in Elems(reads) =>
        /\ exit # "ok"
        /\ \A i \in 1..Len(stdout) : stdout[i] \notin {"Waiting for child processes to finish", "Done"}
        /\ pc = "exited" => ExitCode # 0

-----------------------------------------------------------------------------
(* Shutdown.                                                               *)

WaitingLine == "Waiting for child processes to finish"

Printed(line) == \E i \in 1..Len(stdout) : stdout[i] = line

\* C13: the waiting line is printed once the walk has nothing left to
\* submit and before the drain reaps anything; nothing is dispatched or
\* spawned after it; 'Done' comes after the waiting line and only when
\* every spawned process has been reaped and the live set is empty.
C13_ShutdownOrder ==
    /\ [](Printed(WaitingLine) =>
            /\ pc \in {"drop", "exited"}
            /\ dirs = <<>> /\ iter.pending = {})
    /\ [](\A p \in Pids : procs[p].via = "drain" => Printed(WaitingLine))
    /\ [](Printed("Done") =>
            /\ \E i, j \in 1..Len(stdout) :
                  i < j /\ stdout[i] = WaitingLine /\ stdout[j] = "Done" /\ j = Len(stdout)
            /\ kids = <<>>
            /\ \A p \in Pids : procs[p].st = "reaped")
    /\ [][Printed(WaitingLine) => acts' = acts /\ Len(procs') = Len(procs)]_vars

\* a finished run whose drain reaped a child after an earlier one had
\* been reaped during the walk
C13_Witness ==
    /\ Printed("Done")
    /\ \E p, q \in Pids : procs[p].via = "drain" /\ procs[q].via \in {"try_wait", "wait_any"}

-----------------------------------------------------------------------------
(* The package.json arm.                                                   *)

\* the step dispatched the entry `name`
DispatchOf(name) ==
    /\ Len(acts') = Len(acts) + 1
    /\ file_name(acts'[Len(acts')].path) = name

\* C14: the step that handles a package.json entry does the removal itself
\* (the sibling is gone when the step is over, or the removal failed, or
\* there was nothing to remove) and leaves the live set, every child and
\* the pool's bookkeeping as they were: nothing is spawned, polled or
\* waited for.
C14_RemovalOutsidePool ==
    [][DispatchOf("package.json") =>
          LET a == acts'[Len(acts')]
          IN  /\ a.res \in {"removed", "nothing", "remove_failed"}
              /\ a.res = "removed" => Sibling(a.path, "node_modules") \notin DOMAIN fs'
              /\ kids' = kids
              /\ procs' = procs
              /\ sub' = sub
              /\ idx' = idx
              /\ pc' \in {"loop", "iter"}]_vars

\* a node_modules directory was removed while the pool was one short of
\* full, and the pool is as it was
C14_Witness ==
    /\ acts # <<>>
    /\ acts[Len(acts)].res = "removed"
    /\ file_name(acts[Len(acts)].path) = "package.json"
    /\ kids # <<>>
    /\ Len(kids) = max_kids - 1
    /\ \A p \in Pids : procs[p].st = "running"

-----------------------------------------------------------------------------
(* The blocking wait.                                                      *)

\* the members of the live set that have exited and were not reaped yet
ExitedKids == {p \in Elems(kids) : procs[p].st = "exited"}

-----------------------------------------------------------------------------
(* The life of one process.                                                *)

Occurrences(v, pid) == Cardinality({i \in 1..Len(v) : v[i] = pid})

\* C16: a spawned process is in the live set, once, for as long as it has
\* not been reaped, and is out of it once it has; a process that has left
\* the live set never comes back and nothing about it changes afterwards.
C16_Lifecycle ==
    /\ [](\A p \in Pids : procs[p].st # "reaped" => Occurrences(kids, p) = 1)
    /\ [](\A p \in Pids : procs[p].st = "reaped" => Occurrences(kids, p) = 0)
    /\ [][\A p \in Pids : Occurrences(kids, p) = 0 =>
              Occurrences(kids', p) = 0 /\ procs'[p] = procs[p]]_vars

-----------------------------------------------------------------------------
(* The capacity, at every moment.                                          *)

\* C17: in every reachable state, the moments inside push_wait between the
\* push and the reaping included, the live set holds at most max_kids
\* processes.
C17_NeverAboveCapacity == Len(kids) <= max_kids

-----------------------------------------------------------------------------
(* The command line.                                                       *)

JobsFlags == {i \in 1..Len(args) : args[i] \in {"-j", "--jobs"}}

\* argument texts and the integers they denote
IntegerTexts == {<<"1", 1>>, <<"+2", 2>>, <<"012", 12>>}

\* C18: without a -j / --jobs argument the capacity is 768; with one, the
\* capacity is the integer that follows the first of them (768 when
\* nothing follows it); the startup line reports the pool's capacity.
C18_EffectiveCeiling ==
    /\ JobsFlags = {} => max_kids = 768 /\ stdout[1] = "Using 768 jobs"
    /\ \A i \in JobsFlags :
          (\A j \in JobsFlags : i <= j) =>
              /\ i = Len(args) => max_kids = 768
              /\ \A t \in IntegerTexts :
                    i < Len(args) /\ args[i + 1] = t[1] =>
                        /\ max_kids = t[2]
                        /\ exit # "panic"
                        /\ stdout[1] = "Using " \o to_string(t[2]) \o " jobs"
    /\ stdout # <<>> => stdout[1] = "Using " \o to_string(max_kids) \o " jobs"

\* a finished run whose command line held two flags, the first followed by
\* an integer with a leading zero
C18_Witness ==
    /\ pc = "exited"
    /\ Cardinality(JobsFlags) = 2
    /\ max_kids = 12
    /\ stdout[1] = "Using 12 jobs"
    /\ Printed("Done")

-----------------------------------------------------------------------------
(* The non-blocking pass.                                                  *)

\* try_wait_remove's loop has just ended: `i < self.kids.len()` is false
PassOver == pc = "try_wait" /\ idx >= Len(kids)

\* C19: when a non-blocking pass ends, every process that was in the live
\* set when it began has been polled exactly once and nothing else has;
\* the processes the pass found exited are reaped and out of the live set,
\* all the others are still in it, once each: what is left depends on
\* which processes had exited, not on where they stood in the vector.
C19_PassPollsEachOnce ==
    PassOver =>
        /\ \A p \in Pids : Occurrences(sub.polled, p) = Occurrences(sub.live, p)
        /\ \A p \in Elems(sub.live) :
              /\ Occurrences(sub.live, p) = 1
              /\ procs[p].st = "reaped" => procs[p].via = "try_wait" /\ Occurrences(kids, p) = 0
              /\ procs[p].st # "reaped" => Occurrences(kids, p) = 1
        /\ Elems(kids) \subseteq Elems(sub.live)

\* a pass over two processes removed the first, polled the one swapped
\* into its place, and removed it as well
C19_Witness ==
    /\ PassOver
    /\ Len(sub.live) = 2
    /\ kids = <<>>
    /\ sub.polled = <<sub.live[1], sub.live[2]>>

-----------------------------------------------------------------------------
(* Hidden entries and the dispatcher.                                      *)

\* the for loop over the entry's directory has gone past the entry  
Passed(path) ==
    /\ parent(path) \in Elems(reads)
    /\ fs0[parent(path)].rd
    /\ ~(iter.dir = parent(path) /\ path \in iter.pending)

\* C20: a '.git' entry the walk has gone past was handed to the dispatcher
\* although its name is hidden: it was dispatched once, as git gc; if the
\* spawn succeeded there is one process for it, run in the directory that
\* holds the '.git' entry; the '.git' directory itself is never read and
\* nothing below it is dispatched.
C20_HiddenStillDispatched ==
    \A e \in DOMAIN fs0 :
        file_name(e) = ".git" /\ Len(e) >= 2 /\ Passed(e) =>
            /\ is_hidden(e)
            /\ Dispatched(e) = 1
            /\ \A i \in 1..Len(acts) :
                  acts[i].path = e =>
                      /\ acts[i].prog = "git"
                      /\ acts[i].res = "spawned" =>
                            Cardinality({p \in Pids : /\ procs[p].prog = "git"
                                                      /\ procs[p].args = <<"gc">>
                                                      /\ procs[p].path = parent(e)}) = 1
            /\ \A i \in 1..Len(reads) : reads[i] # e
            /\ \A i \in 1..Len(acts) : e \notin Ancestors(acts[i].path)

\* a finished run over a tree whose '.git' directory holds a marker: git gc
\* was spawned for it and reaped
C20_Witness ==
    /\ pc = "exited"
    /\ \E e \in DOMAIN fs0 :
          /\ file_name(e) = ".git" /\ fs0[e].t = "dir"
          /\ \E q \in DOMAIN fs0 : parent(q) = e /\ file_name(q) \in Markers
          /\ \E p \in Pids : procs[p].prog = "git" /\ procs[p].path = parent(e)
                              /\ procs[p].st = "reaped"

-----------------------------------------------------------------------------
(* Termination.                                                            *)

\* C21: no directory is read twice, links that lead back up the tree
\* included; and, main's thread being scheduled and every running child
\* exiting in the end, the run reaches its end with every child reaped and
\* 'Done' printed.
C21_Terminates ==
    /\ [](\A i, j \in 1..Len(reads) : reads[i] = reads[j] => i = j)
    /\ <>(pc = "exited" /\ Printed("Done") /\ \A p \in Pids : procs[p].st = "reaped")

\* a finished run over a tree with links back to its directories, with a
\* directory below the starting directory read and children reaped
C21_Witness ==
    /\ pc = "exited"
    /\ Printed("Done")
    /\ Len(reads) >= 2
    /\ \E p \in DOMAIN fs0 : fs0[p].t = "link" /\ fs0[p].to \in Ancestors(p)
    /\ \E p \in Pids : procs[p].via = "drain"

-----------------------------------------------------------------------------
(* The pool between submits.                                               *)

\* no wait-any has failed in the run so far
WaitsSucceeded == ~HasLine("Operating System Error", {"ECHILD", "ERROR_INVALID_PARAMETER"})

C23_WaitAnyOnNonEmptySet == pc = "wait" => kids # <<>>

-----------------------------------------------------------------------------
(* The captured error stream.                                              *)

\* the child cannot exit before its pipe is read, and the controller reads
\* the pipe only after the child's exit
Stuck(pid) == procs[pid].st = "blocked"

\* C24: the controller never waits for a child whose exit waits for the
\* controller: the final drain is never waiting on a child that is blocked
\* writing to its captured error stream, and a blocked submit is never
\* left with only such children to wait for.
C24_NoWaitOnStuckChild ==
    /\ pc = "drop" /\ kids # <<>> => ~Stuck(Head(kids))
    /\ pc = "wait" /\ kids # <<>> => \E p \in Elems(kids) : ~Stuck(p)

-----------------------------------------------------------------------------
(* Descent and the outcome of the action.                                  *)

\* main is still inside handle_path for the entry
BeingHandled(path) == pc \in {"try_wait", "wait"} /\ cur.path = path

\* C25: every entry the walk has gone past that is a real directory with
\* a name neither ignored nor hidden has been pushed for reading (or read
\* already), whatever became of the action dispatched for it: a failed
\* action does not keep its subtree from being visited.
C25_DescentIgnoresActionOutcome ==
    \A e \in DOMAIN fs0 :
        /\ Len(e) >= 2 /\ Passed(e) /\ ~BeingHandled(e)
        /\ e \in DOMAIN fs /\ fs0[e].t = "dir" /\ fs0[e].md
        /\ ~Skipped(e)
        => e \in Elems(dirs) \cup Elems(reads)

=============================================================================
